---- MODULE Spec2Model ----
(***************************************************************************)
(* Model of server/scrapers.ts: three event generators that project        *)
(* recurring templates onto future dates, and fetchAllEvents, which        *)
(* awaits the three of them with Promise.all, concatenates, removes        *)
(* duplicates through a Map keyed by a rendered string, and sorts.         *)
(*                                                                         *)
(* A Date is an integer number of time units on the local wall-clock time  *)
(* line: UnitsPerHour units to the hour, 24 hours to the day, day 0 a      *)
(* Sunday.  setDate(getDate() + n) normalises month overflow, so it is     *)
(* the addition of n calendar days; the model assumes a local time line    *)
(* without daylight-saving shifts.                                         *)
(***************************************************************************)
EXTENDS Integers, Sequences, FiniteSets, TLC

\* ---------------------------------------------------------------- bounds
UnitsPerHour == 1
MaxTicks == 1
MaxTotal == 3

\* ------------------------------------------------------------- calendar
UnitsPerDay == 24 * UnitsPerHour

\* Date.prototype.getDay(): 0 = Sunday .. 6 = Saturday
getDay(d) == (d \div UnitsPerDay) % 7

\* d.setDate(d.getDate() + n): n calendar days later, same time of day
setDate(d, n) == d + n * UnitsPerDay

\* d.setHours(h, 0, 0, 0): same calendar day, time of day h:00:00.000
setHours(d, h) == (d \div UnitsPerDay) * UnitsPerDay + h * UnitsPerHour

\* Date.prototype.toISOString(): day, hour and sub-hour unit rendered as text
toISOString(d) ==
    ToString(d \div UnitsPerDay) \o "T"
        \o ToString((d % UnitsPerDay) \div UnitsPerHour) \o ":"
        \o ToString(d % UnitsPerHour) \o "Z"

\* an optional string field: absent is <<>>, present is <<s>>
Some(s) == <<s>>
Absent == <<>>

\* ------------------------------------------- scrapeLexingtonFarmersMarket
\* variant: one iteration too many
MarketWeeksMut == 4 + 1
MarketWeeks == 4

\* variant: the i weeks are not added
MarketEventDateMut(now, i) ==
    setHours(setDate(now, ((6 - getDay(now) + 7) % 7)), 8)
\* eventDate of the i-th iteration: next Saturday + i weeks, at 08:00
MarketEventDate(now, i) ==
    setHours(setDate(now, ((6 - getDay(now) + 7) % 7) + (i * 7)), 8)

\* variant: >= for >
MarketKeepMut(eventDate, now) == eventDate >= now
\* if (eventDate.getTime() > now.getTime())
MarketKeep(eventDate, now) == eventDate > now

MarketRecord(eventDate) ==
    [ title       |-> "Downtown Farmers Market",
      description |-> "Fresh local produce, honey, plants, and artisan goods. Support local farmers and producers.",
      startTime   |-> eventDate,
      location    |-> Some("Tandy Centennial Park, Lexington, KY"),
      category    |-> "food",
      isFree      |-> TRUE,
      sourceUrl   |-> "https://www.lfmky.com/",
      imageUrl    |-> "https://images.unsplash.com/photo-1488459716781-31db52582fe9?auto=format&fit=crop&q=80" ]

RECURSIVE MarketLoop(_, _, _)
\* for (let i = 0; i < 4; i++) { ... events.push(...) }
MarketLoop(now, i, events) ==
    IF i < MarketWeeks
    THEN LET eventDate == MarketEventDate(now, i)
         IN  MarketLoop(now, i + 1,
                 IF MarketKeep(eventDate, now)
                 THEN Append(events, MarketRecord(eventDate))
                 ELSE events)
    ELSE events

MarketEvents(now) == MarketLoop(now, 0, <<>>)

\* ----------------------------------------------------- scrapeChurchEvents
ChurchWeeks == 8

churches ==
    << [ name     |-> "Southland Christian Church",
         event    |-> "Sunday Worship Service",
         day      |-> 0,
         time     |-> 10,
         location |-> "3530 Man O War Blvd, Lexington, KY",
         url      |-> "https://www.southland.org/" ],
       [ name     |-> "First Presbyterian Church",
         event    |-> "Wednesday Evening Fellowship Dinner",
         day      |-> 3,
         time     |-> 18,
         location |-> "171 N Mill St, Lexington, KY",
         url      |-> "https://www.fpclexington.org/" ] >>

\* eventDate: the next occurrence of church.day, at church.time
ChurchEventDate(now, church) ==
    LET daysUntilEvent == (church.day - getDay(now) + 7) % 7
    IN  setHours(setDate(now, daysUntilEvent), church.time)

\* variant: >= for >
ChurchKeepMut(date, now) == date >= now
\* if (date.getTime() > now.getTime())
ChurchKeep(date, now) == date > now

ChurchTitle(church) == church.name \o ": " \o church.event

ChurchRecord(church, date) ==
    [ title       |-> ChurchTitle(church),
      description |-> "Join us for " \o church.event \o " at " \o church.name \o ".",
      startTime   |-> date,
      location    |-> Some(church.location),
      category    |-> "community",
      isFree      |-> TRUE,
      sourceUrl   |-> church.url,
      imageUrl    |-> "https://images.unsplash.com/photo-1516306574312-e4c05dab37fa?auto=format&fit=crop&q=80" ]

RECURSIVE ChurchWeekLoop(_, _, _, _, _)
\* for (let week = 0; week < 8; week++) { ... events.push(...) }
ChurchWeekLoop(now, church, eventDate, week, events) ==
    IF week < ChurchWeeks
    THEN LET date == setDate(eventDate, week * 7)
         IN  ChurchWeekLoop(now, church, eventDate, week + 1,
                 IF ChurchKeep(date, now)
                 THEN Append(events, ChurchRecord(church, date))
                 ELSE events)
    ELSE events

RECURSIVE ChurchLoop(_, _, _)
\* for (const church of churches) { ... }
ChurchLoop(now, c, events) ==
    IF c <= Len(churches)
    THEN ChurchLoop(now, c + 1,
             ChurchWeekLoop(now, churches[c], ChurchEventDate(now, churches[c]), 0, events))
    ELSE events

ChurchEvents(now) == ChurchLoop(now, 1, <<>>)

\* -------------------------------------- scrapeYardSalesAndCommunityEvents
\* isFree is event.title.includes("Cleanup"), evaluated per template
communityEvents ==
    << [ title       |-> "Community Cleanup Day at Shriners Park",
         description |-> "Join neighbors to clean and beautify our local park. All ages welcome!",
         location    |-> "Shriners Park, Lexington, KY",
         date        |-> 7,
         time        |-> 9,
         url         |-> "https://www.nextdoor.com/",
         isFree      |-> TRUE ],
       [ title       |-> "East Side Neighborhood Yard Sale",
         description |-> "Multi-family yard sale across East Side neighborhood. Great deals on furniture, clothes, and more!",
         location    |-> "East Side, Lexington, KY",
         date        |-> 14,
         time        |-> 8,
         url         |-> "https://www.craigslist.org/search/sss",
         isFree      |-> FALSE ],
       [ title       |-> "Paint & Sip Night",
         description |-> "Paint while enjoying beverages with friends. No experience needed. Supplies provided.",
         location    |-> "Downtown Lexington Community Center",
         date        |-> 4,
         time        |-> 19,
         url         |-> "https://www.lexingtonky.gov/",
         isFree      |-> FALSE ] >>

\* variant: setHours left out
CommunityEventDateMut(now, event) == setDate(now, event.date)
\* eventDate: event.date days from now, at event.time
CommunityEventDate(now, event) == setHours(setDate(now, event.date), event.time)

\* if (eventDate.getTime() > now.getTime())
CommunityKeep(eventDate, now) == eventDate > now

CommunityRecord(event, eventDate) ==
    [ title       |-> event.title,
      description |-> event.description,
      startTime   |-> eventDate,
      location    |-> Some(event.location),
      category    |-> "community",
      isFree      |-> event.isFree,
      sourceUrl   |-> event.url,
      imageUrl    |-> "https://images.unsplash.com/photo-1552664730-d307ca884978?auto=format&fit=crop&q=80" ]

RECURSIVE CommunityLoop(_, _, _)
\* for (const event of communityEvents) { ... events.push(...) }
CommunityLoop(now, e, events) ==
    IF e <= Len(communityEvents)
    THEN LET eventDate == CommunityEventDate(now, communityEvents[e])
         IN  CommunityLoop(now, e + 1,
                 IF CommunityKeep(eventDate, now)
                 THEN Append(events, CommunityRecord(communityEvents[e], eventDate))
                 ELSE events)
    ELSE events

CommunityEvents(now) == CommunityLoop(now, 1, <<>>)

\* ----------------------------------------------------------- fetchAllEvents
Generators == 0 .. 2

\* variant: no try/catch, the promise rejects
GeneratorResultMut(fault, events) ==
    IF fault THEN [status |-> "rejected", value |-> <<>>]
             ELSE [status |-> "fulfilled", value |-> events]
\* try { ...; return events; } catch (error) { console.error(...); return []; }
GeneratorResult(fault, events) ==
    IF fault THEN [status |-> "fulfilled", value |-> <<>>]
             ELSE [status |-> "fulfilled", value |-> events]

\* variant: values stored in settlement order
ResolveElementIndexMut(i, settled) == settled
\* Promise.all stores the value of the i-th promise at index i of its result
ResolveElementIndex(i, settled) == i

\* variant: a non-key field in the key
dedupKeyMut(event) ==
    event.title \o "|" \o toISOString(event.startTime) \o "|"
        \o (IF event.location = Absent THEN "undefined" ELSE event.location[1])
        \o "|" \o event.description
\* `${event.title}|${event.startTime.toISOString()}|${event.location}`
dedupKey(event) ==
    event.title \o "|" \o toISOString(event.startTime) \o "|"
        \o (IF event.location = Absent THEN "undefined" ELSE event.location[1])

\* variant: an existing key keeps its first value
MapSetMut(map, key, value) ==
    IF \E i \in 1 .. Len(map) : map[i][1] = key
    THEN map
    ELSE Append(map, <<key, value>>)
\* Map semantics: a new key is appended, an existing key keeps its place and
\* takes the new value
MapSet(map, key, value) ==
    IF \E i \in 1 .. Len(map) : map[i][1] = key
    THEN [i \in 1 .. Len(map) |-> IF map[i][1] = key THEN <<key, value>> ELSE map[i]]
    ELSE Append(map, <<key, value>>)

RECURSIVE NewMap(_, _)
\* new Map(allEvents.map(event => [key, event]))
NewMap(map, entries) ==
    IF entries = <<>>
    THEN map
    ELSE NewMap(MapSet(map, dedupKey(Head(entries)), Head(entries)), Tail(entries))

\* Array.from(new Map(...).values())
UniqueEvents(events) ==
    LET map == NewMap(<<>>, events)
    IN  [i \in 1 .. Len(map) |-> map[i][2]]

RECURSIVE InsertSorted(_, _, _)
\* the place a stable sort gives e among the k first of the sorted events:
\* after the last one the comparator does not put after e
InsertSorted(sorted, e, k) ==
    IF k = 0 \/ sorted[k].startTime - e.startTime <= 0
    THEN SubSeq(sorted, 1, k) \o <<e>> \o SubSeq(sorted, k + 1, Len(sorted))
    ELSE InsertSorted(sorted, e, k - 1)

RECURSIVE SortLoop(_, _)
SortLoop(sorted, rest) ==
    IF rest = <<>> THEN sorted
    ELSE SortLoop(InsertSorted(sorted, Head(rest), Len(sorted)), Tail(rest))

\* variant: no sort
SortByStartTimeMut(events) == events
\* uniqueEvents.sort((a, b) => a.startTime.getTime() - b.startTime.getTime())
SortByStartTime(events) == SortLoop(<<>>, events)

\* ------------------------------------------------------------------ state
VARIABLES
    clock,          \* the wall clock, read by new Date()
    startClock,     \* the wall clock when fetchAllEvents was invoked
    ticks,          \* clock advances so far
    pc,             \* "calling", "awaiting", "done"
    called,         \* generators called so far, in the order of the array literal
    nowOf,          \* the now each generator read (-1: none)
    faulted,        \* generators whose body threw
    promise,        \* the promise each generator returned
    order,          \* the order in which the promises settled
    values,         \* the result array of Promise.all
    allEvents,      \* [...farmersMarket, ...churches, ...community]
    uniqueEvents,   \* the deduplicated list, before sorting
    out,            \* what fetchAllEvents returned
    outStatus       \* "pending", "fulfilled" or "rejected"

vars == << clock, startClock, ticks, pc, called, nowOf, faulted, promise,
           order, values, allEvents, uniqueEvents, out, outStatus >>

InitWith(t) ==
    /\ clock = t
    /\ startClock = t
    /\ ticks = 0
    /\ pc = "calling"
    /\ called = 0
    /\ nowOf = [i \in Generators |-> -1]
    /\ faulted = {}
    /\ promise = [i \in Generators |-> [status |-> "none", value |-> <<>>]]
    /\ order = <<>>
    /\ values = [i \in Generators |-> <<>>]
    /\ allEvents = <<>>
    /\ uniqueEvents = <<>>
    /\ out = <<>>
    /\ outStatus = "pending"

\* fetchAllEvents is invoked at any moment of a week
Init == \E t \in 0 .. 7 * UnitsPerDay - 1 : InitWith(t)

\* the wall clock advances between two readings of it
Tick ==
    /\ pc = "calling"
    /\ called >= 1
    /\ ticks < MaxTicks
    /\ clock' = clock + 1
    /\ ticks' = ticks + 1
    /\ UNCHANGED << startClock, pc, called, nowOf, faulted, promise, order,
                    values, allEvents, uniqueEvents, out, outStatus >>

\* the synchronous call of generator i: its body has no await, so it runs to
\* its return (or to its catch) before the next element of the array literal
Call(i, events, fault) ==
    /\ pc = "calling"
    /\ called = i
    /\ nowOf' = [nowOf EXCEPT ![i] = clock]
    /\ faulted' = IF fault THEN faulted \cup {i} ELSE faulted
    /\ promise' = [promise EXCEPT ![i] = GeneratorResult(fault, events)]
    /\ called' = i + 1
    /\ pc' = IF i = 2 THEN "awaiting" ELSE "calling"
    /\ UNCHANGED << clock, startClock, ticks, order, values, allEvents,
                    uniqueEvents, out, outStatus >>

scrapeLexingtonFarmersMarket ==
    \E fault \in BOOLEAN : Call(0, MarketEvents(clock), fault)

scrapeChurchEvents ==
    \E fault \in BOOLEAN : Call(1, ChurchEvents(clock), fault)

scrapeYardSalesAndCommunityEvents ==
    \E fault \in BOOLEAN : Call(2, CommunityEvents(clock), fault)

RECURSIVE PromiseAll(_, _, _, _)
\* Promise.all: the reactions to the three settlements run in the order
\* `settled`; each stores its promise's value in the result array
PromiseAll(promises, settled, k, result) ==
    IF k <= Len(settled)
    THEN PromiseAll(promises, settled, k + 1,
             [result EXCEPT ![ResolveElementIndex(settled[k], k - 1)] =
                 promises[settled[k]].value])
    ELSE result

\* the orders in which the three promises can settle
Orders == {o \in [1 .. 3 -> Generators] : \A i, j \in 1 .. 3 : i # j => o[i] # o[j]}

\* the continuation of fetchAllEvents after await Promise.all([...]), and its
\* catch
fetchAllEvents ==
    /\ pc = "awaiting"
    /\ \E settled \in Orders :
           /\ order' = settled
           /\ values' = PromiseAll(promise, settled, 1, values)
    /\ IF \E i \in Generators : promise[i].status = "rejected"
       THEN /\ out' = <<>>
            /\ UNCHANGED << allEvents, uniqueEvents >>
       ELSE /\ allEvents' = values'[0] \o values'[1] \o values'[2]
            /\ uniqueEvents' = UniqueEvents(allEvents')
            /\ out' = SortByStartTime(uniqueEvents')
    /\ outStatus' = "fulfilled"
    /\ pc' = "done"
    /\ UNCHANGED << clock, startClock, ticks, called, nowOf, faulted, promise >>

Next ==
    \/ Tick
    \/ scrapeLexingtonFarmersMarket
    \/ scrapeChurchEvents
    \/ scrapeYardSalesAndCommunityEvents
    \/ fetchAllEvents

Spec == Init /\ [][Next]_vars

\* ------------------ fetchAllEvents over generators returning any sequences
StubRecord(title, startTime, location, description) ==
    [ title       |-> title,
      description |-> description,
      startTime   |-> startTime,
      location    |-> location,
      category    |-> "community",
      isFree      |-> TRUE,
      sourceUrl   |-> "https://example.org/",
      imageUrl    |-> "https://example.org/i.png" ]

\* three keys that differ from the first in one component each, and the
\* first key with two descriptions
StubRecords ==
    { StubRecord("A", 1, Some("L"), "x"), StubRecord("A", 1, Some("L"), "y"),
      StubRecord("A", 1, Absent, "x"), StubRecord("A", 2, Some("L"), "x"),
      StubRecord("B", 1, Some("L"), "x") }

SeqsUpTo(S, n) == UNION { [1 .. k -> S] : k \in 0 .. n }

Returned == Len(promise[0].value) + Len(promise[1].value) + Len(promise[2].value)

InitAgg == InitWith(0)

\* generator `called` returns an arbitrary sequence of records
StubGenerator ==
    \E events \in SeqsUpTo(StubRecords, MaxTotal - Returned) :
        Call(called, events, FALSE)

NextAgg ==
    \/ StubGenerator
    \/ fetchAllEvents

SpecAgg == InitAgg /\ [][NextAgg]_vars

\* ================================================================= claims
TimeOfDay(d) == d % UnitsPerDay
DayOf(d) == d \div UnitsPerDay
At(day, hour) == day * UnitsPerDay + hour * UnitsPerHour
Ran(i) == promise[i].status # "none" /\ i \notin faulted
Titled(events, title) == SelectSeq(events, LAMBDA r : r.title = title)
Weekly(events) ==
    \A k \in 1 .. Len(events) - 1 :
        events[k + 1].startTime - events[k].startTime = 7 * UnitsPerDay
CompositeKey(r) == << r.title, toISOString(r.startTime), r.location >>
FirstIndex(events, K) ==
    CHOOSE i \in 1 .. Len(events) :
        /\ CompositeKey(events[i]) = K
        /\ \A j \in 1 .. i - 1 : CompositeKey(events[j]) # K
LastIndex(events, K) ==
    CHOOSE i \in 1 .. Len(events) :
        /\ CompositeKey(events[i]) = K
        /\ \A j \in i + 1 .. Len(events) : CompositeKey(events[j]) # K
Delivered(i) == IF i \in faulted THEN <<>> ELSE promise[i].value
BodyOf(i, now) ==
    IF i \in faulted THEN <<>>
    ELSE IF i = 0 THEN MarketEvents(now)
    ELSE IF i = 1 THEN ChurchEvents(now)
    ELSE CommunityEvents(now)

\* C1: every record a generator returns starts strictly after the now that
\* generator read, and every record fetchAllEvents returns starts strictly
\* after the moment fetchAllEvents was invoked.
C1_FutureOnly ==
    /\ \A i \in Generators : \A k \in 1 .. Len(promise[i].value) :
           promise[i].value[k].startTime > nowOf[i]
    /\ pc = "done" =>
           \A k \in 1 .. Len(out) :
               /\ out[k].startTime > startClock
               /\ ticks = 0 => \A i \in Generators : out[k].startTime > nowOf[i]
\* now is a Saturday at 08:00:00.000 exactly: the candidate equal to now is dropped
C1_Witness ==
    /\ pc = "done" /\ faulted = {} /\ ticks = 0
    /\ getDay(startClock) = 6 /\ TimeOfDay(startClock) = 8 * UnitsPerHour
    /\ Len(promise[0].value) = 3
    /\ Len(out) = 3 + 16 + 3

\* C2: the sequence fetchAllEvents returns is sorted non-decreasing by
\* startTime.
C2_Sorted ==
    pc = "done" =>
        \A k \in 1 .. Len(out) - 1 : out[k].startTime <= out[k + 1].startTime
\* the concatenated list was out of order and nothing was lost in sorting
C2_Witness ==
    /\ pc = "done" /\ faulted = {}
    /\ \E k \in 1 .. Len(allEvents) - 1 :
           allEvents[k].startTime > allEvents[k + 1].startTime
    /\ Len(out) = Len(allEvents) /\ Len(out) >= 20

\* C3: no two records of the sequence fetchAllEvents returns share the
\* composite key (title, ISO-8601 startTime, location), whatever sequences the
\* generators returned.
C3_UniqueKeys ==
    pc = "done" =>
        \A i, j \in 1 .. Len(out) :
            i # j => CompositeKey(out[i]) # CompositeKey(out[j])
\* the generators returned duplicates, within one generator and across two
C3_Witness ==
    /\ pc = "done"
    /\ Len(promise[0].value) = 2 /\ Len(promise[2].value) = 1
    /\ CompositeKey(promise[0].value[1]) = CompositeKey(promise[0].value[2])
    /\ CompositeKey(promise[0].value[1]) = CompositeKey(promise[2].value[1])
    /\ Len(out) = 1

\* C4: deduplication is "first position, last value": the deduplicated list
\* (before sorting) holds exactly one record per composite key of the
\* concatenated list, the keys stand in the order of their first occurrences,
\* and each record is the last record with its key in concatenation order.
C4_FirstPositionLastValue ==
    pc = "done" =>
        LET keys == {CompositeKey(allEvents[i]) : i \in 1 .. Len(allEvents)}
        IN  /\ Len(uniqueEvents) = Cardinality(keys)
            /\ \A K \in keys :
                   Cardinality({j \in 1 .. Len(uniqueEvents) :
                                   CompositeKey(uniqueEvents[j]) = K}) = 1
            /\ \A j \in 1 .. Len(uniqueEvents) :
                   /\ CompositeKey(uniqueEvents[j]) \in keys
                   /\ uniqueEvents[j] =
                          allEvents[LastIndex(allEvents, CompositeKey(uniqueEvents[j]))]
            /\ \A j1, j2 \in 1 .. Len(uniqueEvents) :
                   j1 < j2 =>
                       FirstIndex(allEvents, CompositeKey(uniqueEvents[j1]))
                           < FirstIndex(allEvents, CompositeKey(uniqueEvents[j2]))
\* key K, another key, then K again with other non-key fields
C4_Witness ==
    /\ pc = "done"
    /\ Len(allEvents) = 3
    /\ CompositeKey(allEvents[1]) = CompositeKey(allEvents[3])
    /\ CompositeKey(allEvents[1]) # CompositeKey(allEvents[2])
    /\ allEvents[1] # allEvents[3]
    /\ uniqueEvents = << allEvents[3], allEvents[2] >>

\* C5: a generator that faults returns an empty sequence instead of raising,
\* the other generators still run and return, fetchAllEvents never raises, it
\* returns the deduplicated sorted records of the generators that did not
\* fault, and the empty sequence when all three returned empty sequences.
C5_FaultIsolation ==
    /\ \A i \in Generators :
           /\ promise[i].status \in {"none", "fulfilled"}
           /\ i \in faulted => promise[i].value = <<>>
    /\ pc \in {"awaiting", "done"} =>
           \A i \in Generators :
               /\ promise[i].status = "fulfilled"
               /\ i \notin faulted => promise[i].value # <<>>
    /\ outStatus # "rejected"
    /\ pc = "done" =>
           /\ outStatus = "fulfilled"
           /\ out = SortByStartTime(UniqueEvents(
                        Delivered(0) \o Delivered(1) \o Delivered(2)))
           /\ (\A i \in Generators : promise[i].value = <<>>) => out = <<>>
\* the church generator faulted, the other two delivered
C5_Witness ==
    /\ pc = "done" /\ faulted = {1}
    /\ promise[0].value # <<>> /\ promise[2].value # <<>>
    /\ Len(out) = Len(promise[0].value) + Len(promise[2].value)

\* C6: for a fixed now the result of fetchAllEvents does not depend on the
\* order in which the three promises settle: the outputs are concatenated in
\* registration order (market, institutions, community), as a sequential run
\* would.
C6_OrderIndependent ==
    (pc = "done" /\ nowOf[1] = nowOf[0] /\ nowOf[2] = nowOf[0]) =>
        LET now == nowOf[0]
            sequential == BodyOf(0, now) \o BodyOf(1, now) \o BodyOf(2, now)
        IN  /\ allEvents = sequential
            /\ out = SortByStartTime(UniqueEvents(sequential))
\* the community promise settled first, the market promise second
C6_Witness ==
    /\ pc = "done" /\ faulted = {} /\ ticks = 0
    /\ order = << 2, 0, 1 >>
    /\ Len(out) >= 20

\* C7: when now is a Monday at 09:00 the market generator emits exactly 4
\* records, at Saturday 08:00 of the days 5, 12, 19 and 26 days after that
\* Monday, in that order, all after now.
C7_MondayScenario ==
    (Ran(0) /\ getDay(nowOf[0]) = 1 /\ TimeOfDay(nowOf[0]) = 9 * UnitsPerHour) =>
        LET events == promise[0].value
            monday == DayOf(nowOf[0])
        IN  /\ Len(events) = 4
            /\ events[1].startTime = At(monday + 5, 8)
            /\ events[2].startTime = At(monday + 12, 8)
            /\ events[3].startTime = At(monday + 19, 8)
            /\ events[4].startTime = At(monday + 26, 8)
            /\ \A k \in 1 .. 4 :
                   /\ getDay(events[k].startTime) = 6
                   /\ events[k].startTime > nowOf[0]
C7_Witness ==
    /\ pc = "done" /\ Ran(0)
    /\ getDay(nowOf[0]) = 1 /\ TimeOfDay(nowOf[0]) = 9 * UnitsPerHour
    /\ Len(Titled(out, "Downtown Farmers Market")) = 4

\* C8: the market generator emits at most 4 records per invocation and the
\* church generator at most 8 records per institution.
C8_AtMost ==
    /\ Len(promise[0].value) <= 4
    /\ \A c \in 1 .. Len(churches) :
           Len(Titled(promise[1].value, ChurchTitle(churches[c]))) <= 8
    /\ Len(promise[1].value) <= 8 * Len(churches)
\* both maxima are attained
C8_Witness ==
    /\ Len(promise[0].value) = 4
    /\ \A c \in 1 .. Len(churches) :
           Len(Titled(promise[1].value, ChurchTitle(churches[c]))) = 8

\* C9: the community generator emits at most one record per template, on the
\* calendar day now + offsetDays at the template's hour exactly; with
\* offsetDays = 4 and now a Tuesday that is exactly one record on the following
\* Saturday; a community record is in the final output only if it starts after
\* now.
C9_OneOff ==
    /\ Ran(2) =>
           LET events == promise[2].value
               now == nowOf[2]
           IN  /\ \A e \in 1 .. Len(communityEvents) :
                      LET mine == Titled(events, communityEvents[e].title)
                      IN  /\ Len(mine) <= 1
                          /\ \A k \in 1 .. Len(mine) :
                                 mine[k].startTime =
                                     At(DayOf(now) + communityEvents[e].date,
                                        communityEvents[e].time)
               /\ \A k \in 1 .. Len(events) :
                      \E e \in 1 .. Len(communityEvents) :
                          events[k].title = communityEvents[e].title
               /\ getDay(now) = 2 =>
                      LET paint == Titled(events, "Paint & Sip Night")
                      IN  /\ communityEvents[3].date = 4
                          /\ Len(paint) = 1
                          /\ getDay(paint[1].startTime) = 6
                          /\ paint[1].startTime = At(DayOf(now) + 4, 19)
    /\ pc = "done" =>
           \A k \in 1 .. Len(out) :
               (\E e \in 1 .. Len(communityEvents) :
                    out[k].title = communityEvents[e].title)
                   => out[k].startTime > nowOf[2]
\* now is a Tuesday and the Saturday record reached the final output
C9_Witness ==
    /\ pc = "done" /\ Ran(2) /\ getDay(nowOf[2]) = 2
    /\ Len(Titled(out, "Paint & Sip Night")) = 1
    /\ getDay(Titled(out, "Paint & Sip Night")[1].startTime) = 6

\* C10: a weekly generator emits one record fewer than its occurrence count
\* exactly when now is on the target weekday at or after the target hour
\* (market: 3 instead of 4 on a Saturday from 08:00; a church: 7 instead of 8 on
\* its weekday from its hour), the emitted start times are consecutive weeks,
\* and the first is at most 7 days after now.
C10_OneFewer ==
    /\ Ran(0) =>
           LET events == promise[0].value
               now == nowOf[0]
           IN  /\ Len(events) =
                      IF getDay(now) = 6 /\ TimeOfDay(now) >= 8 * UnitsPerHour
                      THEN 3 ELSE 4
               /\ Weekly(events)
               /\ events[1].startTime - now <= 7 * UnitsPerDay
    /\ Ran(1) =>
           \A c \in 1 .. Len(churches) :
               LET events == Titled(promise[1].value, ChurchTitle(churches[c]))
                   now == nowOf[1]
               IN  /\ Len(events) =
                          IF /\ getDay(now) = churches[c].day
                             /\ TimeOfDay(now) >= churches[c].time * UnitsPerHour
                          THEN 7 ELSE 8
                   /\ Weekly(events)
                   /\ events[1].startTime - now <= 7 * UnitsPerDay
\* now is a Wednesday at 18:00:00.000 exactly: 7 dinners, 8 services
C10_Witness ==
    /\ Ran(1) /\ getDay(nowOf[1]) = 3 /\ TimeOfDay(nowOf[1]) = 18 * UnitsPerHour
    /\ Len(Titled(promise[1].value, ChurchTitle(churches[2]))) = 7
    /\ Len(Titled(promise[1].value, ChurchTitle(churches[1]))) = 8

====
